---- MODULE Spec2Model ----
(***************************************************************************)
(* Model of the hand-sign trainer's play page (web/app/play/page.tsx) and  *)
(* of its detection and classification utilities (unnamed/part_001).       *)
(*                                                                         *)
(*   Spec           the prediction loop of the landmark/KNN page and the   *)
(*                  game-progress (sequence) logic inside it               *)
(*   SpecPlay       the same loop with every frame classified, run to the  *)
(*                  end of the jutsu                                       *)
(*   SpecHands      the same loop with hands leaving the view              *)
(*   SpecScenario   the same loop fed a scripted label stream at 16 ms     *)
(*                  frame spacing                                          *)
(*   SpecInference  the asynchronous ONNX inference loop (runInference)    *)
(*                  and the effect that starts and cancels it              *)
(*   SpecCamera     the camera effect, its 'loadeddata' listeners and the  *)
(*                  requestAnimationFrame chain of predictLoop             *)
(*   SpecNms        one call of nms, and a second one on what it kept      *)
(*   SpecDecode     one call of postprocess on a YOLOv8 output tensor      *)
(*   SpecKnn        one call of KNNClassifier.predict                      *)
(*   SpecVote       the same call with labels that are array indices       *)
(*   SpecNormalize  one call of normalizeHand                              *)
(*   SpecFeatures   the assembly of the feature vector of a frame          *)
(*   SpecRepeat     the prediction loop on a jutsu that repeats a sign     *)
(*   SpecLeaderboard  the leaderboard page (unnamed/part_002) and its      *)
(*                  fetches                                                *)
(*   SpecUpload     the report dialog of the ONNX page and its upload      *)
(*   SpecCursor     CursorGuard                                            *)
(*                                                                         *)
(* Timestamps are performance.now() values in milliseconds.                *)
(***************************************************************************)
EXTENDS Integers, Sequences, FiniteSets, TLC

VARIABLES
    \* ---- prediction loop and game progress (page.tsx 417-657)
    now,                \* performance.now() read by the latest frame callback
    lastVideoTime,      \* lastVideoTime.current
    lastPredictionTime, \* lastPredictionTime.current
    prediction,         \* React state 'prediction'
    targetSequence,     \* React state 'targetSequence' (never set again)
    currentStep,        \* currentStepRef.current (mirrored by setCurrentStep)
    lastSign,           \* lastSign.current
    lastSignTime,       \* lastSignTime.current (0 when no hold is running)
    \* ---- history of the evaluations, read only by the properties
    hLabel,             \* label of the latest evaluation ("" before the first and after an advance)
    hStart,             \* timestamp of the first evaluation of the current run of equal labels
    hBroken,            \* a run of the expected label was broken by another label
    hHandsLost,         \* a video frame with fewer than two hands was processed since
                        \* lastSignTime was last written (kept by SpecHands)
    \* ---- scripted scenario
    frameNo,            \* frames of the script already fed
    \* ---- ONNX inference loop (page.tsx 13-190)
    model,              \* React state 'model': 0 is null, n the n-th session created
    effModel,           \* the model the effect of 185-190 last ran with
    infMounted,         \* the page is mounted (videoRef.current, canvasRef.current set)
    videoReady,         \* video.readyState === 4
    requestRef,         \* requestRef.current
    rafQueue,           \* pending requestAnimationFrame(runInference) callbacks
    rafNext,            \* the id the next requestAnimationFrame returns
    inflight,           \* runInference calls waiting for model.run
    detections,         \* React state 'detections': the call whose boxes it holds, 0 for []
    \* ---- camera effect and predictLoop chain (page.tsx 476-516, 642)
    resourcesLoaded,    \* 0: classifier, landmarker null; 1: classifier set; 2: both set
    camEff,             \* the resources the camera effect last ran with
    camMounted,         \* the page is mounted (videoRef.current set)
    pendingMedia,       \* unresolved getUserMedia calls, each by its effect run
    listeners,          \* 'loadeddata' listeners on the video, in the order added
    streamLoading,      \* srcObject holds a live stream that has not fired 'loadeddata'
    camRequestRef,      \* requestRef.current
    camQueue,           \* pending requestAnimationFrame(predictLoop) callbacks
    camNext,            \* the id the next requestAnimationFrame returns
    \* ---- a call of nms (part_001 212-238), and a second call on what it kept
    nmsBoxes,           \* boxes: [x, y, width, height] each
    nmsScores,          \* scores, in hundredths
    nmsThreshold,       \* iouThreshold, in hundredths
    nmsStage,           \* "input", "kept" after the call, "again" after the second
    nmsKeep,            \* the indices the call returned
    nmsAgain,           \* the indices the second call returned
    \* ---- a call of postprocess (part_001 141-207)
    ppOutput,           \* output: the flattened tensor, class scores in hundredths
    ppStage,            \* "input", then "returned" or "threw"
    ppCands,            \* boxes, scores, classIndices: one record per pushed candidate,
                        \* with the anchor it was pushed for
    ppIndices,          \* indices: what nms returned
    ppResult,           \* results: the DetectedObject list
    \* ---- a call of KNNClassifier.predict (part_001 28-82)
    knnData,            \* this.data: the stored examples, features in tenths
    knnFeatures,        \* features: the query, in tenths
    knnAbsent,          \* the argument is null or undefined (knnFeatures is then <<>>)
    knnK,               \* this.k
    knnStage,           \* "input", then "returned"
    knnResult,          \* what predict returned
    \* ---- a call of normalizeHand (part_001 95-118)
    nhLandmarks,        \* landmarks: [x, y, z] each, in units of 0.00001
    nhAbsent,           \* the argument is null or undefined (nhLandmarks is then <<>>)
    nhStage,            \* "input", then "returned"
    nhCoords,           \* coords: what the call returned
    \* ---- the assembly of the feature vector (page.tsx 551-577)
    fvHandedness,       \* results.handedness: the categoryName of each entry
    fvLandmarks,        \* results.landmarks: the detected hands
    fvStage,            \* "input", then "assembled"
    fvFeatures,         \* features, as passed to predict
    \* ---- history of the step advances
    hAdvanceTime,       \* the time of the latest advance, -1 before the first
    \* ---- LeaderboardPage (part_002 18-55)
    lbMode,             \* mode: the selected mode
    lbPending,          \* the fetches awaiting their response: [id, dbMode]
    lbNext,             \* the number of the next fetch
    lbEntries,          \* entries: the dbMode whose rows they are, "" for none
    lbLoading,          \* loading
    lbFailed,           \* the latest fetch started has resolved with an error
    \* ---- the report dialog of the ONNX page (page.tsx 21-23, 193-230)
    showConsentModal,
    isUploading,
    uploadStatus,       \* "idle", "success" or "error"
    upInflight,         \* the calls of handleReportIssue at an await: [id, stage]
    upNext,             \* the number of the next upload attempt
    upTimers,           \* pending timeouts of 216-219
    upOutcome,          \* how the attempt that ended latest went: "none" before any
    \* ---- CursorGuard (page.tsx 905-975)
    cgMounted,
    cgNow,              \* performance.now()
    cgHasMouse,         \* mouseX >= 0 && mouseY >= 0
    pointerExpiry,
    forcePointer,
    cgAttribute,        \* the document element has data-force-pointer
    rafId,
    cgQueue,            \* ids of the requested animation frames not yet run
    cgSeen              \* when a tick last found a clickable since the pointer last
                        \* left the window, -1 for never

seqVars == <<now, lastVideoTime, lastPredictionTime, prediction, targetSequence,
             currentStep, lastSign, lastSignTime, hLabel, hStart, hBroken, hHandsLost>>

infVars == <<model, effModel, infMounted, videoReady, requestRef, rafQueue, rafNext,
             inflight, detections>>

camVars == <<resourcesLoaded, camEff, camMounted, pendingMedia, listeners, streamLoading,
             camRequestRef, camQueue, camNext>>

nmsVars == <<nmsBoxes, nmsScores, nmsThreshold, nmsStage, nmsKeep, nmsAgain>>

ppVars == <<ppOutput, ppStage, ppCands, ppIndices, ppResult>>

knnVars == <<knnData, knnFeatures, knnAbsent, knnK, knnStage, knnResult>>

nhVars == <<nhLandmarks, nhAbsent, nhStage, nhCoords>>

fvVars == <<fvHandedness, fvLandmarks, fvStage, fvFeatures>>

\* The groups that the calls of nms, postprocess and predict leave alone.
lbVars == <<lbMode, lbPending, lbNext, lbEntries, lbLoading, lbFailed>>

\* The groups of the pages modelled on their own.
upVars == <<showConsentModal, isUploading, uploadStatus, upInflight, upNext, upTimers,
            upOutcome>>

cgVars == <<cgMounted, cgNow, cgHasMouse, pointerExpiry, forcePointer, cgAttribute, rafId,
            cgQueue, cgSeen>>

pageVars == <<lbVars, upVars, cgVars>>

restVars == <<nhVars, fvVars, hAdvanceTime, pageVars>>

pureVars == <<nmsVars, ppVars, knnVars, restVars>>

vars == <<seqVars, frameNo, infVars, camVars, pureVars>>

----------------------------------------------------------------------------
(* Bounds of the model *)

Tick == 100
MaxTime == 2000
MaxPlayTime == 6400
ScenarioFrameMs == 16
ScenarioHoldMs == 650
MaxLoads == 2
MaxRaf == 6
MaxHandsTime == 1600
MaxCandidates == 3
numAnchors == 2
MaxExamples == 4
MaxRepeatTime == 2400
MaxFetches == 4
MaxUploads == 8
CursorTick == 70
MaxCursorTime == 700

(* Program constants *)

CONFIRM_DELAY == 600
ThrottleMs == 100
numClasses == 12
CallSize == 640
CallConfThreshold == 50
CallIouThreshold == 45
kDefault == 3
RejectDistance == 18
DegenerateDistance == 10
MiddleBase == 9
FeatureCount == 126
One == 100000
PointerHold == 140
SlotSize == 63

\* A hand has as many landmarks as a slot of the feature vector holds points.
LandmarkCount == SlotSize \div 3

\* Time between two frame callbacks: none (two callbacks within one clock
\* reading), exactly the throttle period, and longer gaps.
FrameDeltas == {0, Tick, 2 * Tick, 3 * Tick}

\* What classifier.predict returns: labels of the example database (Title
\* Case, see page.tsx 587), one of them in upper case too, and "Idle".
Labels == {"Idle", "Snake", "SNAKE", "Ram", "Monkey", "Boar", "Horse", "Tiger"}

FireballSequence == <<"SNAKE", "RAM", "MONKEY", "BOAR", "HORSE", "TIGER">>

\* String.prototype.toUpperCase on the strings that occur.
toUpperCase(s) ==
    CASE s = "Idle" -> "IDLE"
      [] s \in {"Snake", "SNAKE"} -> "SNAKE"
      [] s \in {"Ram", "RAM"} -> "RAM"
      [] s \in {"Monkey", "MONKEY"} -> "MONKEY"
      [] s \in {"Boar", "BOAR"} -> "BOAR"
      [] s \in {"Horse", "HORSE"} -> "HORSE"
      [] s \in {"Tiger", "TIGER"} -> "TIGER"

\* video.currentTime is only compared for equality with lastVideoTime: the
\* model keeps the parity of the presented video frame.
NextVideoTime(v) == IF v = 0 THEN 1 ELSE 0

----------------------------------------------------------------------------
(* Game progress logic, page.tsx 583-617 *)

\* currentStepRef.current < targetSequence.length
SequenceActive == currentStep < Len(targetSequence)

\* targetSequence[currentStepRef.current]
targetSign == targetSequence[currentStep + 1]

\* holdDuration > CONFIRM_DELAY
HoldConfirmed(holdDuration) == holdDuration > CONFIRM_DELAY

\* Mutant of CorrectSign: a new hold on the correct sign takes over the label
\* but does not restart the timer (592 left out).
CorrectSignResume(result, t) ==
    LET fresh == lastSign # result
        held  == IF fresh THEN result ELSE lastSign
    IN  IF HoldConfirmed(t - lastSignTime)
        THEN /\ currentStep' = currentStep + 1
             /\ lastSignTime' = 0
             /\ lastSign' = "Idle"
        ELSE /\ currentStep' = currentStep
             /\ lastSignTime' = lastSignTime
             /\ lastSign' = held

\* Mutant of CorrectSign: the advance leaves the held label and its timer as
\* they are (603-604 left out).
CorrectSignKeepsHold(result, t) ==
    LET fresh == lastSign # result
        since == IF fresh THEN t ELSE lastSignTime
        held  == IF fresh THEN result ELSE lastSign
    IN  /\ currentStep' = IF HoldConfirmed(t - since) THEN currentStep + 1 ELSE currentStep
        /\ lastSignTime' = since
        /\ lastSign' = held

\* The branch of a result that is the target sign (589-609).
CorrectSign(result, t) ==
    LET fresh == lastSign # result
        since == IF fresh THEN t ELSE lastSignTime
        held  == IF fresh THEN result ELSE lastSign
    IN  IF HoldConfirmed(t - since)
        THEN /\ currentStep' = currentStep + 1
             /\ lastSignTime' = 0
             /\ lastSign' = "Idle"
        ELSE /\ currentStep' = currentStep
             /\ lastSignTime' = since
             /\ lastSign' = held

\* Mutant of WrongSign: a new wrong sign takes over the label and leaves the
\* timer running (613 left out).
WrongSignFreeze(result, t) ==
    /\ currentStep' = currentStep
    /\ lastSignTime' = lastSignTime
    /\ lastSign' = result

\* Mutant of WrongSign: the timer restarts on every wrong result, also one
\* that repeats the held label (613 moved out of the test of 612).
WrongSignRestartAlways(result, t) ==
    /\ currentStep' = currentStep
    /\ lastSignTime' = t
    /\ lastSign' = result

\* The branch of any other result (610-616).
WrongSign(result, t) ==
    /\ currentStep' = currentStep
    /\ IF result # lastSign
       THEN lastSignTime' = t /\ lastSign' = result
       ELSE UNCHANGED <<lastSignTime, lastSign>>

\* Mutant of GameProgress: no test of 584, the sequence starts over after
\* its last sign.
GameProgressLooping(result, t) ==
    LET target == targetSequence[(currentStep % Len(targetSequence)) + 1]
    IN  IF toUpperCase(result) = toUpperCase(target)
        THEN CorrectSign(result, t)
        ELSE WrongSign(result, t)

\* Mutant of GameProgress: the test of 584 guards the correct-sign branch
\* only, the hold of other results is tracked after completion too.
GameProgressTracksAfterEnd(result, t) ==
    IF SequenceActive /\ toUpperCase(result) = toUpperCase(targetSign)
    THEN CorrectSign(result, t)
    ELSE WrongSign(result, t)

GameProgress(result, t) ==
    IF SequenceActive
    THEN IF toUpperCase(result) = toUpperCase(targetSign)
         THEN CorrectSign(result, t)
         ELSE WrongSign(result, t)
    ELSE UNCHANGED <<currentStep, lastSign, lastSignTime>>

\* The history of the evaluations: what a stopwatch started at the first
\* evaluation of each run of equal labels, and stopped by an advance, shows.
History(result, t) ==
    /\ hBroken' = (hBroken \/ (/\ SequenceActive
                               /\ hLabel # ""
                               /\ toUpperCase(hLabel) = toUpperCase(targetSign)
                               /\ toUpperCase(result) # toUpperCase(targetSign)))
    /\ IF currentStep' # currentStep
       THEN hLabel' = "" /\ hStart' = 0
       ELSE IF hLabel # result
            THEN hLabel' = result /\ hStart' = t
            ELSE UNCHANGED <<hLabel, hStart>>

----------------------------------------------------------------------------
(* predictLoop, page.tsx 512-643, with landmarker, classifier, video,      *)
(* canvas and 2D context present.  dt is the time since the previous       *)
(* callback, vt the video's currentTime, hands the number of detected      *)
(* hands and result what classifier.predict returns for them.  The FPS     *)
(* counters and the canvas drawing feed nothing else and are left out.     *)

\* Mutant of ThrottleOpen: a callback exactly one period after the latest
\* classification classifies too.
ThrottleOpenAtPeriod(t) == t - lastPredictionTime >= ThrottleMs

\* now - lastPredictionTime.current > 100 (548)
ThrottleOpen(t) == t - lastPredictionTime > ThrottleMs

Frame(dt, vt, hands, result) ==
    /\ now' = now + dt
    /\ UNCHANGED targetSequence
    /\ IF vt # lastVideoTime
       THEN /\ lastVideoTime' = vt
            /\ IF hands = 2
               THEN IF ThrottleOpen(now + dt)
                    THEN /\ lastPredictionTime' = now + dt
                         /\ prediction' = result
                         /\ GameProgress(result, now + dt)
                         /\ History(result, now + dt)
                    ELSE UNCHANGED <<lastPredictionTime, prediction, currentStep,
                                     lastSign, lastSignTime, hLabel, hStart, hBroken>>
               ELSE /\ prediction' = "Idle"
                    /\ UNCHANGED <<lastPredictionTime, currentStep, lastSign,
                                   lastSignTime, hLabel, hStart, hBroken>>
       ELSE UNCHANGED <<lastVideoTime, lastPredictionTime, prediction, currentStep,
                        lastSign, lastSignTime, hLabel, hStart, hBroken>>

\* The inputs that cannot matter to a callback (the hands of a callback that
\* sees no new video frame, the result of one that does not classify) are
\* drawn from one value.
predictLoop ==
    \E dt \in FrameDeltas, vt \in {lastVideoTime, NextVideoTime(lastVideoTime)} :
      \E hands \in (IF vt = lastVideoTime THEN {0} ELSE 0..2) :
        \E result \in (IF hands = 2 /\ ThrottleOpen(now + dt)
                        THEN Labels ELSE {"Idle"}) :
          /\ now + dt <= MaxTime
          /\ Frame(dt, vt, hands, result)
          /\ UNCHANGED <<hHandsLost, frameNo, infVars, camVars, pureVars>>

SeqInit ==
    /\ now = 0
    /\ lastVideoTime = -1
    /\ lastPredictionTime = 0
    /\ prediction = "Initializing..."
    /\ currentStep = 0
    /\ lastSign = "Idle"
    /\ lastSignTime = 0
    /\ hLabel = ""
    /\ hStart = 0
    /\ hBroken = FALSE
    /\ hHandsLost = FALSE

\* The ONNX page after its first render and mount effects: no model yet, the
\* effect of 185-190 has run with model null and scheduled nothing.
InfInit ==
    /\ model = 0
    /\ effModel = 0
    /\ infMounted = TRUE
    /\ videoReady = FALSE
    /\ requestRef = 0
    /\ rafQueue = {}
    /\ rafNext = 1
    /\ inflight = {}
    /\ detections = 0

\* The landmark page after its first render and mount effects: no resources
\* yet, the camera effect has run once and its getUserMedia call is pending.
CamInit ==
    /\ resourcesLoaded = 0
    /\ camEff = 0
    /\ camMounted = TRUE
    /\ pendingMedia = {0}
    /\ listeners = <<>>
    /\ streamLoading = FALSE
    /\ camRequestRef = 0
    /\ camQueue = {}
    /\ camNext = 1

\* No call of nms made, none to make.
NmsIdle ==
    /\ nmsBoxes = <<>>
    /\ nmsScores = <<>>
    /\ nmsThreshold = 45
    /\ nmsStage = "again"
    /\ nmsKeep = <<>>
    /\ nmsAgain = <<>>

\* No call of postprocess made, none to make.
PpIdle ==
    /\ ppOutput = <<>>
    /\ ppStage = "returned"
    /\ ppCands = <<>>
    /\ ppIndices = <<>>
    /\ ppResult = <<>>

\* No call of predict made, none to make.
KnnIdle ==
    /\ knnData = <<>>
    /\ knnFeatures = <<>>
    /\ knnAbsent = FALSE
    /\ knnK = kDefault
    /\ knnStage = "returned"
    /\ knnResult = "Unknown"

\* No call of normalizeHand made, none to make.
NhIdle ==
    /\ nhLandmarks = <<>>
    /\ nhAbsent = FALSE
    /\ nhStage = "returned"
    /\ nhCoords = <<>>

\* No feature vector assembled, none to assemble.
FvIdle ==
    /\ fvHandedness = <<>>
    /\ fvLandmarks = <<>>
    /\ fvStage = "assembled"
    /\ fvFeatures = <<>>

\* The leaderboard page not opened.
LbIdle ==
    /\ lbMode = "Fireball"
    /\ lbPending = {}
    /\ lbNext = 1
    /\ lbEntries = ""
    /\ lbLoading = TRUE
    /\ lbFailed = FALSE

\* The report dialog as the page first renders it (21-23).
UpInit ==
    /\ showConsentModal = FALSE
    /\ isUploading = FALSE
    /\ uploadStatus = "idle"
    /\ upInflight = {}
    /\ upNext = 1
    /\ upTimers = 0
    /\ upOutcome = "none"

\* CursorGuard after its effect has run (907-911, 962-964).
CgInit ==
    /\ cgMounted = TRUE
    /\ cgNow = 0
    /\ cgHasMouse = FALSE
    /\ pointerExpiry = 0
    /\ forcePointer = FALSE
    /\ cgAttribute = FALSE
    /\ rafId = 1
    /\ cgQueue = {1}
    /\ cgSeen = -1

PageIdle == LbIdle /\ UpInit /\ CgInit

RestIdle == NhIdle /\ FvIdle /\ hAdvanceTime = -1 /\ PageIdle

PureIdle == NmsIdle /\ PpIdle /\ KnnIdle /\ RestIdle

Init ==
    /\ SeqInit
    /\ targetSequence = FireballSequence
    /\ frameNo = 0
    /\ InfInit
    /\ CamInit
    /\ PureIdle

Next == predictLoop

Spec == Init /\ [][Next]_vars

----------------------------------------------------------------------------
(* A player in front of the camera with both hands in view: every callback *)
(* sees a new video frame with two hands and comes late enough to be       *)
(* classified, so that every frame is one evaluation of the game progress  *)
(* logic.  The run is long enough to complete the jutsu.                   *)

PlayDeltas == {2 * Tick, 3 * Tick}

playFrame ==
    \E dt \in PlayDeltas, result \in Labels :
      /\ now + dt <= MaxPlayTime
      /\ Frame(dt, NextVideoTime(lastVideoTime), 2, result)
      /\ UNCHANGED <<hHandsLost, frameNo, infVars, camVars, pureVars>>

NextPlay == playFrame

SpecPlay == Init /\ [][NextPlay]_vars

----------------------------------------------------------------------------
(* A jutsu whose first two steps expect the same sign, played as above.    *)
(* hAdvanceTime records when the latest step advance happened.             *)

RepeatSequence == <<"SNAKE", "SNAKE", "RAM">>

RepeatLabels == {"Idle", "Snake", "SNAKE", "Ram"}

repeatFrame ==
    \E dt \in PlayDeltas, result \in RepeatLabels :
      /\ now + dt <= MaxRepeatTime
      /\ Frame(dt, NextVideoTime(lastVideoTime), 2, result)
      /\ hAdvanceTime' = IF currentStep' # currentStep THEN now' ELSE hAdvanceTime
      /\ UNCHANGED <<hHandsLost, frameNo, infVars, camVars, nmsVars, ppVars, knnVars,
                     nhVars, fvVars, pageVars>>

InitRepeat ==
    /\ SeqInit
    /\ targetSequence = RepeatSequence
    /\ frameNo = 0
    /\ InfInit
    /\ CamInit
    /\ PureIdle

NextRepeat == repeatFrame

SpecRepeat == InitRepeat /\ [][NextRepeat]_vars

----------------------------------------------------------------------------
(* A player whose hands leave and re-enter the view: every callback sees a *)
(* new video frame, with nought, one or two hands, and comes late enough   *)
(* to be classified when there are two.                                    *)

\* Whether a frame with fewer than two hands came since the hold started.
HandsHistory(hands) ==
    hHandsLost' = IF hands < 2 THEN TRUE
                  ELSE IF lastSignTime' # lastSignTime THEN FALSE
                  ELSE hHandsLost

handsFrame ==
    \E dt \in PlayDeltas, hands \in 0..2 :
      \E result \in (IF hands = 2 THEN Labels ELSE {"Idle"}) :
        /\ now + dt <= MaxHandsTime
        /\ Frame(dt, NextVideoTime(lastVideoTime), hands, result)
        /\ HandsHistory(hands)
        /\ UNCHANGED <<frameNo, infVars, camVars, pureVars>>

NextHands == handsFrame

SpecHands == Init /\ [][NextHands]_vars

----------------------------------------------------------------------------
(* The scripted session: the jutsu SNAKE, RAM, MONKEY; one frame of Idle,  *)
(* then each sign in order, shown on every frame of a stretch of           *)
(* ScenarioHoldMs, with one callback every ScenarioFrameMs.                *)

ScenarioSequence == <<"SNAKE", "RAM", "MONKEY">>

\* The fewest frames whose first and last are at least ScenarioHoldMs apart.
HoldFrames == (ScenarioHoldMs + ScenarioFrameMs - 1) \div ScenarioFrameMs + 1

ScriptLen == 1 + Len(ScenarioSequence) * HoldFrames

ScriptLabel(k) ==
    IF k = 1 THEN "Idle" ELSE ScenarioSequence[(k - 2) \div HoldFrames + 1]

\* performance.now() when the session starts.
ScenarioStarts == {0, 40, 1000}

scenarioFrame ==
    /\ frameNo < ScriptLen
    /\ frameNo' = frameNo + 1
    /\ Frame(ScenarioFrameMs, NextVideoTime(lastVideoTime), 2, ScriptLabel(frameNo + 1))
    /\ UNCHANGED <<hHandsLost, infVars, camVars, pureVars>>

ScenarioDone == frameNo = ScriptLen

InitScenario ==
    /\ now \in ScenarioStarts
    /\ lastVideoTime = -1
    /\ lastPredictionTime = 0
    /\ prediction = "Initializing..."
    /\ currentStep = 0
    /\ lastSign = "Idle"
    /\ lastSignTime = 0
    /\ hLabel = ""
    /\ hStart = 0
    /\ hBroken = FALSE
    /\ hHandsLost = FALSE
    /\ targetSequence = ScenarioSequence
    /\ frameNo = 0
    /\ InfInit
    /\ CamInit
    /\ PureIdle

NextScenario == scenarioFrame

SpecScenario == InitScenario /\ [][NextScenario]_vars

----------------------------------------------------------------------------
(* The ONNX inference loop, page.tsx 35-59 and 94-190.  A pending callback *)
(* and a running call carry the model of the runInference closure they     *)
(* belong to.  Sessions are created once per mount of the page; MaxLoads   *)
(* above one is React's development double mount.                          *)

\* cancelAnimationFrame(id)
Cancel(queue, id) == {cb \in queue : cb.id # id}

\* Mutant of EffectStarts: the effect schedules whenever there is a model.
EffectStartsUnguarded == model # 0

\* model && !requestRef.current (186)
EffectStarts == model # 0 /\ requestRef = 0

\* setModel(session) (49) and the render that follows.  The effects of one
\* render run before the next render.
ModelLoaded ==
    /\ infMounted
    /\ effModel = model
    /\ model < MaxLoads
    /\ model' = model + 1
    /\ UNCHANGED <<effModel, infMounted, videoReady, requestRef, rafQueue, rafNext,
                   inflight, detections>>
    /\ UNCHANGED <<seqVars, frameNo, camVars, pureVars>>

\* The effect of 185-190 after a render with a new model: the cleanup of the
\* previous run, then the body.
InferenceEffect ==
    /\ infMounted
    /\ effModel # model
    /\ rafNext <= MaxRaf
    /\ effModel' = model
    /\ IF EffectStarts
       THEN /\ requestRef' = rafNext
            /\ rafQueue' = Cancel(rafQueue, requestRef) \cup {[id |-> rafNext, m |-> model]}
            /\ rafNext' = rafNext + 1
       ELSE /\ rafQueue' = Cancel(rafQueue, requestRef)
            /\ UNCHANGED <<requestRef, rafNext>>
    /\ UNCHANGED <<model, infMounted, videoReady, inflight, detections>>
    /\ UNCHANGED <<seqVars, frameNo, camVars, pureVars>>

VideoBecomesReady ==
    /\ infMounted
    /\ ~videoReady
    /\ videoReady' = TRUE
    /\ UNCHANGED <<model, effModel, infMounted, requestRef, rafQueue, rafNext,
                   inflight, detections>>
    /\ UNCHANGED <<seqVars, frameNo, camVars, pureVars>>

\* A frame callback: runInference up to the await of model.run (94-128).
runInferenceStart ==
    \E cb \in rafQueue :
      /\ rafQueue' = rafQueue \ {cb}
      /\ IF cb.m = 0 \/ ~infMounted \/ ~videoReady
         THEN UNCHANGED inflight
         ELSE inflight' = inflight \cup {cb}
      /\ UNCHANGED <<model, effModel, infMounted, videoReady, requestRef, rafNext,
                     detections>>
      /\ UNCHANGED <<seqVars, frameNo, camVars, pureVars>>

\* model.run settles: the rest of runInference (129-182).  ok is whether it
\* resolved; a rejection is caught at 163.  React drops the setDetections of
\* an unmounted component.  The timing counters feed only the FPS display.
runInferenceResume ==
    \E call \in inflight, ok \in BOOLEAN :
      /\ rafNext <= MaxRaf
      /\ inflight' = inflight \ {call}
      /\ detections' = IF ok /\ infMounted THEN call.id ELSE detections
      /\ requestRef' = rafNext
      /\ rafQueue' = rafQueue \cup {[id |-> rafNext, m |-> call.m]}
      /\ rafNext' = rafNext + 1
      /\ UNCHANGED <<model, effModel, infMounted, videoReady>>
      /\ UNCHANGED <<seqVars, frameNo, camVars, pureVars>>

\* The page unmounts: the cleanup of the effect (189); the refs become null.
InferenceUnmount ==
    /\ infMounted
    /\ infMounted' = FALSE
    /\ rafQueue' = Cancel(rafQueue, requestRef)
    /\ UNCHANGED <<model, effModel, videoReady, requestRef, rafNext, inflight, detections>>
    /\ UNCHANGED <<seqVars, frameNo, camVars, pureVars>>

NextInference ==
    \/ ModelLoaded
    \/ InferenceEffect
    \/ VideoBecomesReady
    \/ runInferenceStart
    \/ runInferenceResume
    \/ InferenceUnmount

SpecInference == Init /\ [][NextInference]_vars

----------------------------------------------------------------------------
(* The camera effect and the callback chain of predictLoop, page.tsx       *)
(* 432-516 and 642.  loadResources sets the classifier, then the           *)
(* landmarker, in two renders; the camera effect depends on both and runs  *)
(* after each.  A listener and a pending callback carry the resources of   *)
(* the render whose predictLoop closure they hold (0, 1 or 2).             *)

\* requestAnimationFrame(fn) for each fn of fns in turn, first id n.
ScheduleAll(fns, n) == {[id |-> n + i - 1, fn |-> fns[i]] : i \in 1..Len(fns)}

\* setClassifier(knn) (442), then setLandmarker(handLandmarker) (462), each
\* with the render that follows.  The effects of one render run before the
\* next render.
ResourceLoaded ==
    /\ camMounted
    /\ camEff = resourcesLoaded
    /\ resourcesLoaded < 2
    /\ resourcesLoaded' = resourcesLoaded + 1
    /\ UNCHANGED <<camEff, camMounted, pendingMedia, listeners, streamLoading,
                   camRequestRef, camQueue, camNext>>
    /\ UNCHANGED <<seqVars, frameNo, infVars, pureVars>>

\* The cleanup of the camera effect (499-508): the callback named by
\* requestRef is cancelled, removeEventListener is given a function that was
\* never added and removes nothing, the tracks of the current stream stop.
CameraCleanup ==
    /\ camQueue' = Cancel(camQueue, camRequestRef)
    /\ streamLoading' = FALSE
    /\ UNCHANGED <<listeners, camRequestRef, camNext>>

\* The camera effect after a render with new resources: the cleanup of the
\* previous run, then setupCamera up to its await (476-482).
CameraEffect ==
    /\ camMounted
    /\ camEff # resourcesLoaded
    /\ camEff' = resourcesLoaded
    /\ CameraCleanup
    /\ pendingMedia' = pendingMedia \cup {resourcesLoaded}
    /\ UNCHANGED <<resourcesLoaded, camMounted>>
    /\ UNCHANGED <<seqVars, frameNo, infVars, pureVars>>

\* getUserMedia settles: the rest of setupCamera (483-495).  ok is whether it
\* resolved.  The new stream becomes the video's srcObject and the listener
\* is added.
MediaSettled ==
    \E run \in pendingMedia, ok \in BOOLEAN :
      /\ pendingMedia' = pendingMedia \ {run}
      /\ IF ok /\ camMounted
         THEN /\ streamLoading' = TRUE
              /\ listeners' = Append(listeners, run)
         ELSE UNCHANGED <<streamLoading, listeners>>
      /\ UNCHANGED <<resourcesLoaded, camEff, camMounted, camRequestRef, camQueue, camNext>>
      /\ UNCHANGED <<seqVars, frameNo, infVars, pureVars>>

\* The video fires 'loadeddata': every listener runs (485-490), each
\* scheduling the predictLoop of its closure.
LoadedData ==
    /\ camMounted
    /\ streamLoading
    /\ camNext + Len(listeners) - 1 <= MaxRaf
    /\ streamLoading' = FALSE
    /\ camQueue' = camQueue \cup ScheduleAll(listeners, camNext)
    /\ camRequestRef' = camNext + Len(listeners) - 1
    /\ camNext' = camNext + Len(listeners)
    /\ UNCHANGED <<resourcesLoaded, camEff, camMounted, pendingMedia, listeners>>
    /\ UNCHANGED <<seqVars, frameNo, infVars, pureVars>>

\* A frame callback: predictLoop as far as the chain goes.  Every path
\* through it that returns ends in requestAnimationFrame(predictLoop) of the
\* same closure (514, 523, 642); what a callback with all resources does to the game
\* state is the action predictLoop.
predictLoopCallback ==
    \E cb \in camQueue :
      /\ camNext <= MaxRaf
      /\ camQueue' = (camQueue \ {cb}) \cup {[id |-> camNext, fn |-> cb.fn]}
      /\ camRequestRef' = camNext
      /\ camNext' = camNext + 1
      /\ UNCHANGED <<resourcesLoaded, camEff, camMounted, pendingMedia, listeners,
                     streamLoading>>
      /\ UNCHANGED <<seqVars, frameNo, infVars, pureVars>>

\* A frame callback whose computation throws.  predictLoop has no try: the
\* exception leaves the callback before 642 and nothing is scheduled.  The
\* callback got past the guard of 513 (resources of its closure, video and
\* canvas present) and saw a new video frame; landmarker.detectForVideo
\* (534) throws after lastVideoTime was written (531), the feature assembly
\* or classifier.predict (554-580) after lastPredictionTime was written too
\* (549).  Nothing of the game progress state is written before 581.
predictLoopThrows ==
    \E cb \in camQueue, classifying \in BOOLEAN :
      /\ cb.fn = 2
      /\ camMounted
      /\ now + 2 * Tick <= MaxTime
      /\ camQueue' = camQueue \ {cb}
      /\ now' = now + 2 * Tick
      /\ lastVideoTime' = NextVideoTime(lastVideoTime)
      /\ lastPredictionTime' = IF classifying THEN now' ELSE lastPredictionTime
      /\ UNCHANGED <<prediction, targetSequence, currentStep, lastSign, lastSignTime,
                     hLabel, hStart, hBroken, hHandsLost>>
      /\ UNCHANGED <<resourcesLoaded, camEff, camMounted, pendingMedia, listeners,
                     streamLoading, camRequestRef, camNext>>
      /\ UNCHANGED <<frameNo, infVars, pureVars>>

\* The page unmounts: the cleanup of the camera effect; videoRef.current
\* becomes null.
CameraUnmount ==
    /\ camMounted
    /\ camMounted' = FALSE
    /\ CameraCleanup
    /\ UNCHANGED <<resourcesLoaded, camEff, pendingMedia>>
    /\ UNCHANGED <<seqVars, frameNo, infVars, pureVars>>

NextCamera ==
    \/ ResourceLoaded
    \/ CameraEffect
    \/ MediaSettled
    \/ LoadedData
    \/ predictLoopCallback
    \/ predictLoopThrows
    \/ CameraUnmount

SpecCamera == Init /\ [][NextCamera]_vars

----------------------------------------------------------------------------
(* Non-maximum suppression, part_001 212-254.  Array indices are the       *)
(* source's, from 0.  Coordinates are integers, scores and thresholds      *)
(* hundredths.  A quotient is kept as numerator and denominator: the value *)
(* num/den for den # 0, and NaN for 0/0.  Widths and heights are never     *)
(* negative here, so that a denominator is never negative and no quotient  *)
(* is an infinity.                                                         *)

Max(a, b) == IF a >= b THEN a ELSE b

Min(a, b) == IF a <= b THEN a ELSE b

calculateIoU(boxA, boxB) ==
    LET x1 == Max(boxA[1], boxB[1])
        y1 == Max(boxA[2], boxB[2])
        x2 == Min(boxA[1] + boxA[3], boxB[1] + boxB[3])
        y2 == Min(boxA[2] + boxA[4], boxB[2] + boxB[4])
        intersectionWidth == Max(0, x2 - x1)
        intersectionHeight == Max(0, y2 - y1)
        intersectionArea == intersectionWidth * intersectionHeight
        boxAArea == boxA[3] * boxA[4]
        boxBArea == boxB[3] * boxB[4]
    IN  [num |-> intersectionArea, den |-> boxAArea + boxBArea - intersectionArea]

\* q <= t / 100 and q > t / 100 in floating point: both false for NaN.
QuotientLeq(q, t) == q.den # 0 /\ q.num * 100 <= t * q.den

QuotientGt(q, t) == q.den # 0 /\ q.num * 100 > t * q.den

\* Mutant of InsertSorted: an index goes before the indices of equal score.
InsertSortedBeforeEqual(sorted, i, scores) ==
    LET before == SelectSeq(sorted, LAMBDA j : scores[j + 1] > scores[i + 1])
        after  == SelectSeq(sorted, LAMBDA j : scores[j + 1] <= scores[i + 1])
    IN  before \o <<i>> \o after

\* One insertion of a stable sort by descending score: index i, larger than
\* every index of sorted, goes behind the indices whose score is no less.
InsertSorted(sorted, i, scores) ==
    LET before == SelectSeq(sorted, LAMBDA j : scores[j + 1] >= scores[i + 1])
        after  == SelectSeq(sorted, LAMBDA j : scores[j + 1] < scores[i + 1])
    IN  before \o <<i>> \o after

RECURSIVE SortPrefix(_, _)
\* The indices 0 .. n-1 sorted by (a, b) => scores[b] - scores[a].
\* Array.prototype.sort is stable: equal scores keep their index order.
SortPrefix(scores, n) ==
    IF n = 0 THEN <<>> ELSE InsertSorted(SortPrefix(scores, n - 1), n - 1, scores)

\* Mutant of SortedIndices: the sort of 216 left out.
SortedIndicesUnsorted(scores) == [k \in 1..Len(scores) |-> k - 1]

\* Array.from(Array(scores.length).keys()) sorted by score, descending (213-216)
SortedIndices(scores) == SortPrefix(scores, Len(scores))

RECURSIVE NmsLoop(_, _, _, _)
\* The while loop of 220-235.
NmsLoop(indices, keep, boxes, iouThreshold) ==
    IF indices = <<>>
    THEN keep
    ELSE LET current == Head(indices)
             remaining == SelectSeq(Tail(indices),
                              LAMBDA i : QuotientLeq(calculateIoU(boxes[current + 1],
                                                                  boxes[i + 1]),
                                                     iouThreshold))
         IN  NmsLoop(remaining, Append(keep, current), boxes, iouThreshold)

nms(boxes, scores, iouThreshold) ==
    NmsLoop(SortedIndices(scores), <<>>, boxes, iouThreshold)

\* The inputs of the calls: up to MaxCandidates candidates.  Of the boxes two
\* overlap with IoU 0.9, a third overlaps both with an IoU below 0.45, two
\* have no area.
NmsBoxSet == {<<0, 0, 10, 10>>, <<0, 0, 10, 9>>, <<5, 0, 10, 10>>,
              <<2, 2, 0, 0>>, <<2, 2, 0, 5>>}

NmsScoreSet == {60, 90}

NmsThresholds == {0, 45, 90}

\* nms(boxes, scores, iouThreshold)
runNms ==
    /\ nmsStage = "input"
    /\ nmsStage' = "kept"
    /\ nmsKeep' = nms(nmsBoxes, nmsScores, nmsThreshold)
    /\ UNCHANGED <<nmsBoxes, nmsScores, nmsThreshold, nmsAgain>>
    /\ UNCHANGED <<seqVars, frameNo, infVars, camVars, ppVars, knnVars, restVars>>

\* nms on the boxes and scores the first call kept, in the order it kept them
runNmsAgain ==
    /\ nmsStage = "kept"
    /\ nmsStage' = "again"
    /\ nmsAgain' = nms([k \in 1..Len(nmsKeep) |-> nmsBoxes[nmsKeep[k] + 1]],
                       [k \in 1..Len(nmsKeep) |-> nmsScores[nmsKeep[k] + 1]],
                       nmsThreshold)
    /\ UNCHANGED <<nmsBoxes, nmsScores, nmsThreshold, nmsKeep>>
    /\ UNCHANGED <<seqVars, frameNo, infVars, camVars, ppVars, knnVars, restVars>>

InitNms ==
    /\ SeqInit
    /\ targetSequence = FireballSequence
    /\ frameNo = 0
    /\ InfInit
    /\ CamInit
    /\ \E n \in 0..MaxCandidates :
         /\ nmsBoxes \in [1..n -> NmsBoxSet]
         /\ nmsScores \in [1..n -> NmsScoreSet]
    /\ nmsThreshold \in NmsThresholds
    /\ nmsStage = "input"
    /\ nmsKeep = <<>>
    /\ nmsAgain = <<>>
    /\ PpIdle
    /\ KnnIdle
    /\ RestIdle

NextNms ==
    \/ runNms
    \/ runNmsAgain

SpecNms == InitNms /\ [][NextNms]_vars

----------------------------------------------------------------------------
(* postprocess, part_001 141-207, called as at page.tsx 132 with a 640 by  *)
(* 640 image and the thresholds 0.50 and 0.45.  The tensor has numAnchors  *)
(* anchors: the source's 8400 scaled down.  Box channels hold integers,    *)
(* widths and heights even ones, so that w / 2 is exact.                   *)

LABELS == <<"tiger", "boar", "snake", "ram", "bird", "dragon",
            "dog", "rat", "horse", "monkey", "ox", "hare">>

numElements == 4 + numClasses

\* output[idx] is a number: a read past the end of a Float32Array gives
\* undefined, and undefined > x is false.
Defined(output, idx) == idx < Len(output)

RECURSIVE ClassScan(_, _, _, _)
\* The loop of 167-173 from class c on.  max.index = -1 stands for
\* maxScore = -Infinity, which every number exceeds.
ClassScan(output, i, c, max) ==
    IF c = numClasses
    THEN max
    ELSE LET idx == (4 + c) * numAnchors + i
             greater == /\ Defined(output, idx)
                        /\ (max.index = -1 \/ output[idx + 1] > max.score)
         IN  ClassScan(output, i, c + 1,
                       IF greater THEN [score |-> output[idx + 1], index |-> c] ELSE max)

\* maxScore and maxClassIndex of anchor i (159-173)
MaxClass(output, i) == ClassScan(output, i, 0, [score |-> 0, index |-> -1])

\* Mutant of ExceedsThreshold: a score at the threshold passes.
ExceedsThresholdOrEqual(max, confThreshold) ==
    max.index # -1 /\ max.score >= confThreshold

\* maxScore > confThreshold (175)
ExceedsThreshold(max, confThreshold) ==
    max.index # -1 /\ max.score > confThreshold

\* What 176-189 push for anchor i.
Candidate(output, i, imgWidth, imgHeight, max) ==
    LET cx == output[0 * numAnchors + i + 1]
        cy == output[1 * numAnchors + i + 1]
        w  == output[2 * numAnchors + i + 1]
        h  == output[3 * numAnchors + i + 1]
        x  == (cx - w \div 2) * imgWidth
        y  == (cy - h \div 2) * imgHeight
        width  == w * imgWidth
        height == h * imgHeight
    IN  [anchor |-> i, box |-> <<x, y, width, height>>,
         score |-> max.score, classIndex |-> max.index]

RECURSIVE CandidatesDescending(_, _, _, _, _)
\* Mutant of Candidates: the anchors are visited from the last to the first.
CandidatesDescending(output, n, imgWidth, imgHeight, confThreshold) ==
    IF n = 0
    THEN <<>>
    ELSE LET rest == CandidatesDescending(output, n - 1, imgWidth, imgHeight, confThreshold)
             max  == MaxClass(output, n - 1)
         IN  IF ExceedsThreshold(max, confThreshold)
             THEN <<Candidate(output, n - 1, imgWidth, imgHeight, max)>> \o rest
             ELSE rest

RECURSIVE Candidates(_, _, _, _, _)
\* The loop of 157-191 over the anchors 0 .. n-1.
Candidates(output, n, imgWidth, imgHeight, confThreshold) ==
    IF n = 0
    THEN <<>>
    ELSE LET rest == Candidates(output, n - 1, imgWidth, imgHeight, confThreshold)
             max  == MaxClass(output, n - 1)
         IN  IF ExceedsThreshold(max, confThreshold)
             THEN Append(rest, Candidate(output, n - 1, imgWidth, imgHeight, max))
             ELSE rest

\* The DetectedObject of 199-203 for candidate cand.
DetectedObject(cand) ==
    [label |-> LABELS[cand.classIndex + 1],
     score |-> cand.score,
     box   |-> <<cand.box[1], cand.box[2],
                 cand.box[1] + cand.box[3], cand.box[2] + cand.box[4]>>]

\* The locals of postprocess when it returns.
postprocess(output, imgWidth, imgHeight, confThreshold, iouThreshold) ==
    LET cands   == Candidates(output, numAnchors, imgWidth, imgHeight, confThreshold)
        boxes   == [k \in 1..Len(cands) |-> cands[k].box]
        scores  == [k \in 1..Len(cands) |-> cands[k].score]
        indices == nms(boxes, scores, iouThreshold)
    IN  [cands   |-> cands,
         indices |-> indices,
         results |-> [k \in 1..Len(indices) |-> DetectedObject(cands[indices[k] + 1])]]

\* The tensors of the calls.  An anchor has one of two boxes (two equal
\* boxes overlap fully, two different ones not at all), a score for class 0
\* below, at or above the confidence threshold and a score for class 11;
\* the scores of the other classes are 0.
AnchorBoxes == {<<1, 1, 2, 2>>, <<5, 1, 2, 2>>}

FirstClassScores == {40, 50, 70, 90}

LastClassScores == {0, 90}

AnchorChoices ==
    [box : AnchorBoxes, first : FirstClassScores, last : LastClassScores]

\* The channel-major tensor [1, 4 + numClasses, numAnchors] of the anchors.
Tensor(anchors) ==
    [k \in 1..(numElements * numAnchors) |->
        LET channel == (k - 1) \div numAnchors
            a == anchors[(k - 1) % numAnchors]
        IN  IF channel < 4 THEN a.box[channel + 1]
            ELSE IF channel = 4 THEN a.first
            ELSE IF channel = numElements - 1 THEN a.last
            ELSE 0]

\* The tensor as it is, without its last element, and with one element more.
Shapes(tensor) ==
    {tensor, SubSeq(tensor, 1, Len(tensor) - 1), Append(tensor, 90)}

\* postprocess(output, w, h, 0.50, 0.45).  No statement of it throws: it
\* does not look at output.length, and an index past the end reads undefined.
runPostprocess ==
    /\ ppStage = "input"
    /\ LET r == postprocess(ppOutput, CallSize, CallSize, CallConfThreshold, CallIouThreshold)
       IN  /\ ppCands' = r.cands
           /\ ppIndices' = r.indices
           /\ ppResult' = r.results
    /\ ppStage' = "returned"
    /\ UNCHANGED ppOutput
    /\ UNCHANGED <<seqVars, frameNo, infVars, camVars, nmsVars, knnVars, restVars>>

InitDecode ==
    /\ SeqInit
    /\ targetSequence = FireballSequence
    /\ frameNo = 0
    /\ InfInit
    /\ CamInit
    /\ NmsIdle
    /\ \E anchors \in [0..(numAnchors - 1) -> AnchorChoices] :
         ppOutput \in Shapes(Tensor(anchors))
    /\ ppStage = "input"
    /\ ppCands = <<>>
    /\ ppIndices = <<>>
    /\ ppResult = <<>>
    /\ KnnIdle
    /\ RestIdle

NextDecode == runPostprocess

SpecDecode == InitDecode /\ [][NextDecode]_vars

----------------------------------------------------------------------------
(* KNNClassifier.predict, part_001 28-82, of a classifier made with the    *)
(* default k.  Coordinates are integers, in tenths.  A distance is kept as *)
(* its square, the sum of 87-90: for distances, which are never negative,  *)
(* a < b exactly when a * a < b * b, and a > 1.8 exactly when the sum is   *)
(* above 18 * 18 in tenths squared.                                        *)

RECURSIVE SumSquares(_, _, _)
\* The loop of 87-90 over the first len coordinates.
SumSquares(a, b, len) ==
    IF len = 0
    THEN 0
    ELSE SumSquares(a, b, len - 1) + (a[len] - b[len]) * (a[len] - b[len])

\* The square of euclideanDistance(a, b)
euclideanDistance(a, b) == SumSquares(a, b, Min(Len(a), Len(b)))

\* One insertion of a stable sort by ascending distance.
InsertByDist(sorted, d) ==
    SelectSeq(sorted, LAMBDA e : e.dist <= d.dist)
      \o <<d>> \o SelectSeq(sorted, LAMBDA e : e.dist > d.dist)

RECURSIVE SortByDist(_, _)
\* distances.sort((a, b) => a.dist - b.dist) of the first n distances (52)
SortByDist(distances, n) ==
    IF n = 0 THEN <<>> ELSE InsertByDist(SortByDist(distances, n - 1), distances[n])

\* distances.slice(0, this.k) after the sort (43-55)
kNearest(data, features, kk) ==
    LET distances == [i \in 1..Len(data) |->
                        [label |-> data[i].label,
                         dist  |-> euclideanDistance(features, data[i].features)]]
        sorted == SortByDist(distances, Len(distances))
    IN  SubSeq(sorted, 1, Min(kk, Len(sorted)))

\* Mutant of Rejected: a nearest example at the threshold is rejected too.
RejectedAtThreshold(minDist) == minDist >= RejectDistance * RejectDistance

\* minDist > 1.8 (61)
Rejected(minDist) == minDist > RejectDistance * RejectDistance

\* counts[label] after the loop of 67-69
Count(nearest, label) ==
    Cardinality({n \in 1..Len(nearest) : nearest[n].label = label})

\* The array index a property key is, -1 for a key that is none.  Of the
\* labels that occur, "1" and "2" are array indices.
ArrayIndex(label) ==
    CASE label = "1" -> 1
      [] label = "2" -> 2
      [] OTHER -> -1

RECURSIVE FirstMet(_, _)
\* The labels of the first n neighbours, each once, in the order met.
FirstMet(nearest, n) ==
    IF n = 0
    THEN <<>>
    ELSE LET met == FirstMet(nearest, n - 1)
         IN  IF \E m \in 1..Len(met) : met[m] = nearest[n].label
             THEN met
             ELSE Append(met, nearest[n].label)

RECURSIVE Ascending(_)
\* The labels of a set of array-index keys by ascending index.
Ascending(keys) ==
    IF keys = {}
    THEN <<>>
    ELSE LET least == CHOOSE key \in keys :
                        \A other \in keys : ArrayIndex(key) <= ArrayIndex(other)
         IN  <<least>> \o Ascending(keys \ {least})

\* The keys of counts as 'for (const label in counts)' visits them (74):
\* the keys that are array indices by ascending index, then the other keys
\* in the order they were created, which is the order the labels were met.
CountKeys(nearest) ==
    LET met == FirstMet(nearest, Len(nearest))
    IN  Ascending({met[m] : m \in {n \in 1..Len(met) : ArrayIndex(met[n]) # -1}})
          \o SelectSeq(met, LAMBDA label : ArrayIndex(label) = -1)

RECURSIVE Vote(_, _, _, _)
\* The loop of 74-79 over the keys left to visit.  voted is the local
\* 'prediction'.
Vote(nearest, keys, maxCount, voted) ==
    IF keys = <<>>
    THEN voted
    ELSE LET count == Count(nearest, Head(keys))
         IN  IF count > maxCount
             THEN Vote(nearest, Tail(keys), count, Head(keys))
             ELSE Vote(nearest, Tail(keys), maxCount, voted)

\* The majority vote of 66-81.
Majority(nearest) == Vote(nearest, CountKeys(nearest), 0, "Unknown")

\* Mutant of Unanswerable: the test of features.length left out.
UnanswerableAnyLength(data, absent, features) == absent \/ data = <<>>

\* !features || features.length === 0 || this.data.length === 0 (29)
Unanswerable(data, absent, features) == absent \/ features = <<>> \/ data = <<>>

predict(data, absent, features, kk) ==
    IF Unanswerable(data, absent, features)
    THEN "Unknown"
    ELSE LET nearest == kNearest(data, features, kk)
         IN  IF Rejected(nearest[1].dist)
             THEN "Idle"
             ELSE Majority(nearest)

\* The stored examples: at the query, at distance 1.8 of it, just beyond
\* and far away.
ExampleFeatures == {<<0, 0>>, <<18, 0>>, <<10, 15>>, <<30, 0>>}

ExampleLabels == {"Snake", "Ram"}

\* The argument of a call: absent, an empty array, an array of numbers.
Queries == {[absent |-> TRUE, features |-> <<>>],
            [absent |-> FALSE, features |-> <<>>],
            [absent |-> FALSE, features |-> <<0, 0>>]}

\* classifier.predict(features)
runPredict ==
    /\ knnStage = "input"
    /\ knnStage' = "returned"
    /\ knnResult' = predict(knnData, knnAbsent, knnFeatures, knnK)
    /\ UNCHANGED <<knnData, knnFeatures, knnAbsent, knnK>>
    /\ UNCHANGED <<seqVars, frameNo, infVars, camVars, nmsVars, ppVars, restVars>>

InitKnn ==
    /\ SeqInit
    /\ targetSequence = FireballSequence
    /\ frameNo = 0
    /\ InfInit
    /\ CamInit
    /\ NmsIdle
    /\ PpIdle
    /\ \E n \in 0..MaxExamples :
         knnData \in [1..n -> [features : ExampleFeatures, label : ExampleLabels]]
    /\ \E query \in Queries :
         /\ knnAbsent = query.absent
         /\ knnFeatures = query.features
    /\ knnK = kDefault
    /\ knnStage = "input"
    /\ knnResult = "Unknown"
    /\ RestIdle

NextKnn == runPredict

SpecKnn == InitKnn /\ [][NextKnn]_vars

\* Calls that come to the vote: classifiers made with k = 3 and k = 4, every
\* stored example within 1.8 of the query, labels that are words and labels
\* that are numerals.
VoteFeatures == {<<0, 0>>, <<5, 0>>}

VoteLabels == {"A", "B", "1", "2"}

VoteKs == {kDefault, kDefault + 1}

InitVote ==
    /\ SeqInit
    /\ targetSequence = FireballSequence
    /\ frameNo = 0
    /\ InfInit
    /\ CamInit
    /\ NmsIdle
    /\ PpIdle
    /\ \E n \in 0..MaxExamples :
         knnData \in [1..n -> [features : VoteFeatures, label : VoteLabels]]
    /\ knnFeatures = <<0, 0>>
    /\ knnAbsent = FALSE
    /\ knnK \in VoteKs
    /\ knnStage = "input"
    /\ knnResult = "Unknown"
    /\ RestIdle

NextVote == runPredict

SpecVote == InitVote /\ [][NextVote]_vars

----------------------------------------------------------------------------
(* normalizeHand, part_001 95-118, on the hands MediaPipe gives: 21         *)
(* landmarks, index 0 the wrist and index 9 the base of the middle finger.  *)
(* Coordinates are integers, in units of 0.00001.  The distance of 101-105  *)
(* is kept as its square, and a coordinate of the result as the difference  *)
(* to the wrist with the scale it is divided by: the number 1.0, or the     *)
(* square root of scale.sq.  A quotient with scale.sq = 0 is NaN or an      *)
(* infinity.                                                                *)

\* The square of the dist of 101-105.
WristDistance(landmarks) ==
    LET wrist == landmarks[1]
        middleBase == landmarks[MiddleBase + 1]
    IN  (wrist.x - middleBase.x) * (wrist.x - middleBase.x)
          + (wrist.y - middleBase.y) * (wrist.y - middleBase.y)
          + (wrist.z - middleBase.z) * (wrist.z - middleBase.z)

\* Mutant of HandScale: 107 left out.
HandScaleUnguarded(landmarks) == [one |-> FALSE, sq |-> WristDistance(landmarks)]

\* dist after 'if (dist < 0.0001) dist = 1.0' (107)
HandScale(landmarks) ==
    IF WristDistance(landmarks) < DegenerateDistance * DegenerateDistance
    THEN [one |-> TRUE, sq |-> 0]
    ELSE [one |-> FALSE, sq |-> WristDistance(landmarks)]

\* The three values pushed for landmark lm (111-114)
NormalizedPoint(lm, wrist, scale) ==
    <<[num |-> lm.x - wrist.x, scale |-> scale],
      [num |-> lm.y - wrist.y, scale |-> scale],
      [num |-> lm.z - wrist.z, scale |-> scale]>>

RECURSIVE NormalizedPrefix(_, _, _)
\* coords after the first n landmarks (109-115)
NormalizedPrefix(landmarks, n, scale) ==
    IF n = 0
    THEN <<>>
    ELSE NormalizedPrefix(landmarks, n - 1, scale)
           \o NormalizedPoint(landmarks[n], landmarks[1], scale)

normalizeHand(absent, landmarks) ==
    IF absent \/ landmarks = <<>>
    THEN <<>>
    ELSE NormalizedPrefix(landmarks, Len(landmarks), HandScale(landmarks))

\* The hands of the calls.  The wrist, the base of the middle finger, the
\* base of the index finger (landmark 5) and the tip of the little finger
\* (landmark 20) vary; every other landmark lies a little off the wrist.  The
\* base of the middle finger lies on the wrist, less than 0.0001 off it,
\* exactly 0.0001 off it (6, 8, 0), just beyond, or far away.
Point(x, y, z) == [x |-> x, y |-> y, z |-> z]

Wrists == {Point(0, 0, 0), Point(50000, 40000, -300)}

MiddleBaseOffsets ==
    {Point(dx, dy, 0) : dx \in {0, 6, 10, 20000}, dy \in {0, 8}}

OtherOffsets == {Point(0, 0, 0), Point(-3000, 9000, 5)}

Hand(wrist, middle, index, little) ==
    [n \in 1..LandmarkCount |->
        LET off == IF n = 1 THEN Point(0, 0, 0)
                   ELSE IF n = MiddleBase + 1 THEN middle
                   ELSE IF n = 6 THEN index
                   ELSE IF n = LandmarkCount THEN little
                   ELSE Point(1, 1, 1)
        IN  Point(wrist.x + off.x, wrist.y + off.y, wrist.z + off.z)]

Hands ==
    {Hand(wrist, middle, index, little) :
        wrist \in Wrists, middle \in MiddleBaseOffsets,
        index \in OtherOffsets, little \in OtherOffsets}

\* normalizeHand(landmarks)
runNormalizeHand ==
    /\ nhStage = "input"
    /\ nhStage' = "returned"
    /\ nhCoords' = normalizeHand(nhAbsent, nhLandmarks)
    /\ UNCHANGED <<nhLandmarks, nhAbsent>>
    /\ UNCHANGED <<seqVars, frameNo, infVars, camVars, nmsVars, ppVars, knnVars, fvVars, hAdvanceTime, pageVars>>

InitNormalize ==
    /\ SeqInit
    /\ targetSequence = FireballSequence
    /\ frameNo = 0
    /\ InfInit
    /\ CamInit
    /\ NmsIdle
    /\ PpIdle
    /\ KnnIdle
    /\ \/ nhAbsent = TRUE /\ nhLandmarks = <<>>
       \/ nhAbsent = FALSE /\ nhLandmarks \in Hands \cup {<<>>}
    /\ nhStage = "input"
    /\ nhCoords = <<>>
    /\ FvIdle
    /\ hAdvanceTime = -1
    /\ PageIdle

NextNormalize == runNormalizeHand

SpecNormalize == InitNormalize /\ [][NextNormalize]_vars

----------------------------------------------------------------------------
(* The feature vector of a frame with two hands, page.tsx 551-577.          *)

\* An entry of 'new Array(126).fill(0)' (551): the number 0.
Zero == [num |-> 0, scale |-> [one |-> TRUE, sq |-> 0]]

\* landmarks.map(lm => ({ x: 1.0 - lm.x, y: lm.y, z: lm.z })) (564-568)
flippedLandmarks(landmarks) ==
    [n \in 1..Len(landmarks) |->
        Point(One - landmarks[n].x, landmarks[n].y, landmarks[n].z)]

\* Mutant of SlotOffset: the slots swapped.
SlotOffsetSwapped(label) == IF label = "Left" THEN SlotSize ELSE 0

\* const offset = (label === "Left") ? 0 : 63 (572)
SlotOffset(label) == IF label = "Left" THEN 0 ELSE SlotSize

\* for (i < normalized.length) features[offset + i] = normalized[i] (574-576);
\* an assignment past the end would lengthen the array.
WriteSlot(features, offset, normalized) ==
    [i \in 1..Max(Len(features), offset + Len(normalized)) |->
        IF i > offset /\ i <= offset + Len(normalized)
        THEN normalized[i - offset]
        ELSE features[i]]

RECURSIVE AssembleFeatures(_, _, _)
\* features after the first n entries of results.handedness (554-577)
AssembleFeatures(handedness, landmarks, n) ==
    IF n = 0
    THEN [i \in 1..FeatureCount |-> Zero]
    ELSE LET before == AssembleFeatures(handedness, landmarks, n - 1)
         IN  IF n > Len(landmarks)
             THEN before
             ELSE WriteSlot(before, SlotOffset(handedness[n]),
                            normalizeHand(FALSE, flippedLandmarks(landmarks[n])))

\* The two hands of a frame: a few of the hands above, none with every
\* landmark on the wrist.
FeatureHands ==
    {Hand(wrist, middle, Point(-3000, 9000, 5), little) :
        wrist \in Wrists,
        middle \in {Point(0, 0, 0), Point(20000, 8, 0)},
        little \in {Point(0, 0, 0)}}

\* results.handedness: one category name per entry, for one, two or three
\* entries.
Handednesses ==
    UNION {[1..n -> {"Left", "Right"}] : n \in 1..3}

\* The throttled block of predictLoop up to the call of predict (551-577)
assembleFeatures ==
    /\ fvStage = "input"
    /\ fvStage' = "assembled"
    /\ fvFeatures' = AssembleFeatures(fvHandedness, fvLandmarks, Len(fvHandedness))
    /\ UNCHANGED <<fvHandedness, fvLandmarks>>
    /\ UNCHANGED <<seqVars, frameNo, infVars, camVars, nmsVars, ppVars, knnVars, nhVars, hAdvanceTime, pageVars>>

InitFeatures ==
    /\ SeqInit
    /\ targetSequence = FireballSequence
    /\ frameNo = 0
    /\ InfInit
    /\ CamInit
    /\ NmsIdle
    /\ PpIdle
    /\ KnnIdle
    /\ NhIdle
    /\ fvHandedness \in Handednesses
    /\ fvLandmarks \in [1..2 -> FeatureHands]
    /\ fvStage = "input"
    /\ fvFeatures = <<>>
    /\ hAdvanceTime = -1
    /\ PageIdle

NextFeatures == assembleFeatures

SpecFeatures == InitFeatures /\ [][NextFeatures]_vars

----------------------------------------------------------------------------
(* LeaderboardPage, part_002 18-55.  The effect of 25-55 runs after the     *)
(* first render and after every render with another mode; it has no        *)
(* cleanup, and fetchLeaderboard does not look at the mode again after its *)
(* await.  The rows fetched for a mode are named by the mode they are of.  *)

modes == {"Fireball", "Chidori", "Water Dragon", "Shadow Clone", "Phoenix Flower"}

\* mode.toUpperCase() (32)
dbMode(m) ==
    CASE m = "Fireball" -> "FIREBALL"
      [] m = "Chidori" -> "CHIDORI"
      [] m = "Water Dragon" -> "WATER DRAGON"
      [] m = "Shadow Clone" -> "SHADOW CLONE"
      [] m = "Phoenix Flower" -> "PHOENIX FLOWER"

\* What every other specification leaves alone here.
calcVars == <<nmsVars, ppVars, knnVars, nhVars, fvVars, hAdvanceTime>>

\* fetchLeaderboard up to its await (26-41)
StartFetch(m) ==
    /\ lbLoading' = TRUE
    /\ lbPending' = lbPending \cup {[id |-> lbNext, dbMode |-> dbMode(m)]}
    /\ lbNext' = lbNext + 1
    /\ lbFailed' = FALSE

\* A click on the button of another mode (setMode(m)), the render and the
\* effect that follows it.  setMode with the mode already selected renders
\* nothing and runs no effect.
SelectMode ==
    \E m \in modes \ {lbMode} :
      /\ lbNext <= MaxFetches
      /\ lbMode' = m
      /\ StartFetch(m)
      /\ UNCHANGED lbEntries
      /\ UNCHANGED <<seqVars, frameNo, infVars, camVars, calcVars, upVars, cgVars>>

\* The query of a fetch resolves: the rest of fetchLeaderboard (43-51).
FetchResolves ==
    \E fetch \in lbPending, error \in BOOLEAN :
      /\ lbPending' = lbPending \ {fetch}
      /\ lbEntries' = IF error THEN lbEntries ELSE fetch.dbMode
      /\ lbLoading' = FALSE
      /\ lbFailed' = IF fetch.id = lbNext - 1 THEN error ELSE lbFailed
      /\ UNCHANGED <<lbMode, lbNext>>
      /\ UNCHANGED <<seqVars, frameNo, infVars, camVars, calcVars, upVars, cgVars>>

\* The page after its first render and the first run of the effect.
InitLeaderboard ==
    /\ SeqInit
    /\ targetSequence = FireballSequence
    /\ frameNo = 0
    /\ InfInit
    /\ CamInit
    /\ NmsIdle
    /\ PpIdle
    /\ KnnIdle
    /\ NhIdle
    /\ FvIdle
    /\ hAdvanceTime = -1
    /\ lbMode = "Fireball"
    /\ lbPending = {[id |-> 1, dbMode |-> dbMode("Fireball")]}
    /\ lbNext = 2
    /\ lbEntries = ""
    /\ lbLoading = TRUE
    /\ lbFailed = FALSE
    /\ UpInit
    /\ CgInit

NextLeaderboard ==
    \/ SelectMode
    \/ FetchResolves

SpecLeaderboard == InitLeaderboard /\ [][NextLeaderboard]_vars

----------------------------------------------------------------------------
(* The report dialog of the ONNX page: handleReportIssue, page.tsx 193-230, *)
(* and the buttons of 259 and 338-380.  The canvas of 294 is rendered as    *)
(* long as the page is, so the return of 194 is not taken.  upOutcome       *)
(* records how the attempt that ended latest went.                          *)

\* Mutant of ButtonDisabled: the button is enabled again as soon as the
\* upload is over.
ButtonDisabledWhileUploading == isUploading

\* disabled={isUploading || uploadStatus === 'success'} (367)
ButtonDisabled == isUploading \/ uploadStatus = "success"

\* The button of 259.
OpenConsentModal ==
    /\ ~showConsentModal
    /\ showConsentModal' = TRUE
    /\ UNCHANGED <<isUploading, uploadStatus, upInflight, upNext, upTimers, upOutcome>>
    /\ UNCHANGED <<seqVars, frameNo, infVars, camVars, calcVars, lbVars, cgVars>>

\* The buttons of 342 and 360.
CloseConsentModal ==
    /\ showConsentModal
    /\ showConsentModal' = FALSE
    /\ UNCHANGED <<isUploading, uploadStatus, upInflight, upNext, upTimers, upOutcome>>
    /\ UNCHANGED <<seqVars, frameNo, infVars, camVars, calcVars, lbVars, cgVars>>

\* A click on the upload button: handleReportIssue up to the await of the
\* blob (193-201).
handleReportIssue ==
    /\ showConsentModal
    /\ ~ButtonDisabled
    /\ upNext <= MaxUploads
    /\ isUploading' = TRUE
    /\ upInflight' = upInflight \cup {[id |-> upNext, stage |-> "capture"]}
    /\ upNext' = upNext + 1
    /\ UNCHANGED <<showConsentModal, uploadStatus, upTimers, upOutcome>>
    /\ UNCHANGED <<seqVars, frameNo, infVars, camVars, calcVars, lbVars, cgVars>>

\* catch and finally (221-229)
UploadFailed(attempt) ==
    /\ upInflight' = upInflight \ {attempt}
    /\ uploadStatus' = "error"
    /\ isUploading' = FALSE
    /\ upOutcome' = "failed"
    /\ UNCHANGED <<showConsentModal, upNext, upTimers>>

\* toBlob calls back, with a blob or with null: 203-211 and, for null,
\* 221-229.
BlobCaptured ==
    \E attempt \in upInflight, blob \in BOOLEAN :
      /\ attempt.stage = "capture"
      /\ IF blob
         THEN /\ upInflight' = (upInflight \ {attempt})
                                 \cup {[id |-> attempt.id, stage |-> "upload"]}
              /\ UNCHANGED <<showConsentModal, isUploading, uploadStatus, upNext,
                             upTimers, upOutcome>>
         ELSE UploadFailed(attempt)
      /\ UNCHANGED <<seqVars, frameNo, infVars, camVars, calcVars, lbVars, cgVars>>

\* The upload settles, with or without uploadError: 213-229.
UploadSettled ==
    \E attempt \in upInflight, uploadError \in BOOLEAN :
      /\ attempt.stage = "upload"
      /\ IF uploadError
         THEN UploadFailed(attempt)
         ELSE /\ upInflight' = upInflight \ {attempt}
              /\ uploadStatus' = "success"
              /\ upTimers' = upTimers + 1
              /\ isUploading' = FALSE
              /\ upOutcome' = "succeeded"
              /\ UNCHANGED <<showConsentModal, upNext>>
      /\ UNCHANGED <<seqVars, frameNo, infVars, camVars, calcVars, lbVars, cgVars>>

\* The timeout of 216-219.
UploadTimeout ==
    /\ upTimers > 0
    /\ upTimers' = upTimers - 1
    /\ uploadStatus' = "idle"
    /\ showConsentModal' = FALSE
    /\ UNCHANGED <<isUploading, upInflight, upNext, upOutcome>>
    /\ UNCHANGED <<seqVars, frameNo, infVars, camVars, calcVars, lbVars, cgVars>>

InitUpload ==
    /\ SeqInit
    /\ targetSequence = FireballSequence
    /\ frameNo = 0
    /\ InfInit
    /\ CamInit
    /\ NmsIdle
    /\ PpIdle
    /\ KnnIdle
    /\ NhIdle
    /\ FvIdle
    /\ hAdvanceTime = -1
    /\ LbIdle
    /\ UpInit
    /\ CgInit

NextUpload ==
    \/ OpenConsentModal
    \/ CloseConsentModal
    \/ handleReportIssue
    \/ BlobCaptured
    \/ UploadSettled
    \/ UploadTimeout

SpecUpload == InitUpload /\ [][NextUpload]_vars

----------------------------------------------------------------------------
(* CursorGuard, page.tsx 905-975: one effect, run at mount.  What is under  *)
(* the pointer at a tick is an input of the tick.  cgSeen records the time  *)
(* of the latest tick that found a clickable, forgotten when the pointer    *)
(* leaves the window.                                                       *)

\* setForcePointer(enabled) (913-922), as the attribute it leaves.
AttributeAfter(enabled) == IF forcePointer = enabled THEN cgAttribute ELSE enabled

\* Mutant of PointerExpired: the hold never runs out.
PointerHeldForever(t) == FALSE

\* now > pointerExpiry (943)
PointerExpired(t) == t > pointerExpiry

CursorDeltas == {CursorTick, 2 * CursorTick, 3 * CursorTick}

\* A frame callback: evaluate (935-948), dt after the previous one.
evaluate ==
    \E id \in cgQueue, dt \in CursorDeltas :
      \E clickableNow \in (IF cgHasMouse THEN BOOLEAN ELSE {FALSE}) :
        /\ cgNow + dt <= MaxCursorTime
        /\ cgNow' = cgNow + dt
        /\ IF clickableNow
           THEN /\ pointerExpiry' = cgNow + dt + PointerHold
                /\ forcePointer' = TRUE
                /\ cgAttribute' = AttributeAfter(TRUE)
                /\ cgSeen' = cgNow + dt
           ELSE IF PointerExpired(cgNow + dt)
                THEN /\ forcePointer' = FALSE
                     /\ cgAttribute' = AttributeAfter(FALSE)
                     /\ UNCHANGED <<pointerExpiry, cgSeen>>
                ELSE UNCHANGED <<pointerExpiry, forcePointer, cgAttribute, cgSeen>>
        /\ rafId' = id + 1
        /\ cgQueue' = (cgQueue \ {id}) \cup {id + 1}
        /\ UNCHANGED <<cgMounted, cgHasMouse>>
        /\ UNCHANGED <<seqVars, frameNo, infVars, camVars, calcVars, lbVars, upVars>>

\* A mousemove event: onMove (950-953)
onMove ==
    /\ cgMounted
    /\ ~cgHasMouse
    /\ cgHasMouse' = TRUE
    /\ UNCHANGED <<cgMounted, cgNow, pointerExpiry, forcePointer, cgAttribute, rafId,
                   cgQueue, cgSeen>>
    /\ UNCHANGED <<seqVars, frameNo, infVars, camVars, calcVars, lbVars, upVars>>

\* A mouseleave event: onLeaveWindow (955-960)
onLeaveWindow ==
    /\ cgMounted
    /\ cgHasMouse
    /\ cgHasMouse' = FALSE
    /\ pointerExpiry' = 0
    /\ forcePointer' = FALSE
    /\ cgAttribute' = AttributeAfter(FALSE)
    /\ cgSeen' = -1
    /\ UNCHANGED <<cgMounted, cgNow, rafId, cgQueue>>
    /\ UNCHANGED <<seqVars, frameNo, infVars, camVars, calcVars, lbVars, upVars>>

\* The cleanup of the effect (966-971)
CursorGuardUnmount ==
    /\ cgMounted
    /\ cgMounted' = FALSE
    /\ cgQueue' = cgQueue \ {rafId}
    /\ cgAttribute' = FALSE
    /\ UNCHANGED <<cgNow, cgHasMouse, pointerExpiry, forcePointer, rafId, cgSeen>>
    /\ UNCHANGED <<seqVars, frameNo, infVars, camVars, calcVars, lbVars, upVars>>

InitCursor ==
    /\ SeqInit
    /\ targetSequence = FireballSequence
    /\ frameNo = 0
    /\ InfInit
    /\ CamInit
    /\ PureIdle

NextCursor ==
    \/ evaluate
    \/ onMove
    \/ onLeaveWindow
    \/ CursorGuardUnmount

SpecCursor == InitCursor /\ [][NextCursor]_vars

----------------------------------------------------------------------------
(* Properties of the game progress logic *)

\* A step is an evaluation of the game progress logic when the callback
\* classified: only then lastPredictionTime moves (549), and prediction is
\* then the classified label (581).
Evaluated == lastPredictionTime' # lastPredictionTime

ExpectedLabel(L) == SequenceActive /\ toUpperCase(L) = toUpperCase(targetSign)

\* C1: currentStep is always in [0, N], N the length of the target
\* sequence, whatever labels and timestamps the evaluations get; it reaches N
\* on completion and never exceeds it.
C1_StepInRange == currentStep \in 0..Len(targetSequence)

C1_Witness == currentStep = Len(targetSequence)

\* C2 as stated: an evaluation that continues the hold of the expected label
\* does not advance the step when the hold lasted less than CONFIRM_DELAY and
\* advances it by one when the hold lasted CONFIRM_DELAY or longer.
C2_AdvanceAtDelay ==
    [][(Evaluated /\ ExpectedLabel(prediction') /\ lastSign = prediction')
       => IF now' - lastSignTime >= CONFIRM_DELAY
          THEN currentStep' = currentStep + 1
          ELSE currentStep' = currentStep]_vars

\* C3: the step advances only on an evaluation that continues a run of equal
\* labels whose first evaluation, the one that followed the latest different
\* label, lies at least CONFIRM_DELAY back; hold time from before an
\* interruption never counts.
C3_RestartAfterInterruption ==
    [][currentStep' # currentStep
       => /\ hLabel = prediction'
          /\ now' - hStart >= CONFIRM_DELAY]_vars

\* The state right after the first advance of a run in which the hold of the
\* first sign had been broken by another label.
C3_Witness ==
    /\ hBroken
    /\ currentStep = 1
    /\ lastSign = "Idle"
    /\ lastSignTime = 0
    /\ toUpperCase(prediction) = toUpperCase(targetSequence[1])

\* C4: an evaluation with a label other than the expected one (compared in
\* upper case) leaves the step alone; it sets lastSign to the label and
\* lastSignTime to the timestamp when the label differs from lastSign, and
\* changes neither when the label is lastSign.
C4_WrongLabel ==
    [][(Evaluated /\ SequenceActive /\ ~ExpectedLabel(prediction'))
       => /\ currentStep' = currentStep
          /\ IF prediction' # lastSign
             THEN lastSign' = prediction' /\ lastSignTime' = now'
             ELSE lastSign' = lastSign /\ lastSignTime' = lastSignTime]_vars

\* A wrong label is held: it restarted the timer, and a later evaluation
\* with the same label left it alone.
C4_Witness ==
    /\ SequenceActive
    /\ lastSign # "Idle"
    /\ ~ExpectedLabel(lastSign)
    /\ prediction = lastSign
    /\ 0 < lastSignTime
    /\ lastSignTime < lastPredictionTime

\* C5: once currentStep is N no evaluation changes currentStep, lastSign or
\* lastSignTime, and the step never goes back (the page has no reset).
C5_CompleteIsTerminal ==
    [][/\ currentStep' >= currentStep
       /\ (currentStep = Len(targetSequence)
           => UNCHANGED <<currentStep, lastSign, lastSignTime>>)]_vars

\* Complete, and evaluated again since with a label other than the last sign.
C5_Witness ==
    /\ currentStep = Len(targetSequence)
    /\ toUpperCase(prediction) # toUpperCase(targetSequence[Len(targetSequence)])

\* C7: lastSignTime is never later than the clock of the latest callback,
\* and it changes only in an evaluation that changes lastSign.
C7_HeldSince ==
    /\ [](lastSignTime <= now)
    /\ [][lastSignTime' # lastSignTime => (Evaluated /\ lastSign' # lastSign)]_vars

\* A hold that started at an earlier evaluation is still running.
C7_Witness ==
    /\ 0 < lastSignTime
    /\ lastSignTime < lastPredictionTime
    /\ lastPredictionTime < now

\* C6 as stated: after the scripted session the jutsu is complete.
C6_ScenarioCompletes == ScenarioDone => currentStep = Len(targetSequence)

\* C11 as stated: a frame with fewer than two hands reaches the game
\* progress logic as the label "Idle" (lastSign becomes "Idle", and the timer
\* restarts when it was another label), so that the step never advances on a
\* hold during which the hands had left the view.
C11_HandsLostIsIdle ==
    /\ [][(hHandsLost' /\ ~hHandsLost)
           => (lastSign' = "Idle" /\ (lastSign # "Idle" => lastSignTime' = now'))]_vars
    /\ [][currentStep' # currentStep => ~hHandsLost]_vars

----------------------------------------------------------------------------
(* Properties of the inference loop *)

\* C8: at most one call of model.run is in flight at any time, whatever the
\* order of frame callbacks, model loads and effect runs.
C8_OneInFlight == Cardinality(inflight) <= 1

\* An inference is in flight and the effect has run again, with a newer
\* model, since the closure of that inference was made.
C8_Witness == \E call \in inflight : effModel > call.m

\* C9 as stated: once the page is unmounted no further frame is scheduled and
\* no inference result reaches the detections.
C9_DiscardAfterEnd ==
    [][~infMounted => (rafQueue' \subseteq rafQueue /\ detections' = detections)]_vars

----------------------------------------------------------------------------
(* Properties of the camera effect *)

\* C10 as stated: at most one requestAnimationFrame callback of the
\* prediction loop is pending, and it belongs to the predictLoop closure of
\* the resources the camera effect last ran with.
C10_SingleChain ==
    /\ Cardinality(camQueue) <= 1
    /\ \A cb \in camQueue : cb.fn = camEff

\* A step in which a pending frame callback of the prediction loop ran: it
\* left the queue, and neither the camera effect nor an unmount cancelled it.
FrameCallbackRan ==
    /\ camQueue \ camQueue' # {}
    /\ camEff' = camEff
    /\ camMounted' = camMounted

\* C12 as stated: every frame callback that runs schedules the next one,
\* whether or not its computation threw, so that no failure stops the loop;
\* and a callback that schedules none leaves currentStep, lastSign and
\* lastSignTime as they were.
C12_FailureIsContained ==
    /\ [][FrameCallbackRan => camQueue' \ camQueue # {}]_vars
    /\ [][(FrameCallbackRan /\ camQueue' \ camQueue = {})
           => UNCHANGED <<currentStep, lastSign, lastSignTime>>]_vars

----------------------------------------------------------------------------
(* Properties of non-maximum suppression *)

NmsIndices == 0..(Len(nmsBoxes) - 1)

NmsKept == {nmsKeep[k] : k \in 1..Len(nmsKeep)}

NmsIoU(i, j) == calculateIoU(nmsBoxes[i + 1], nmsBoxes[j + 1])

\* Candidate i is processed before candidate j: descending score, equal
\* scores in index order.
ProcessedBefore(i, j) ==
    \/ nmsScores[i + 1] > nmsScores[j + 1]
    \/ nmsScores[i + 1] = nmsScores[j + 1] /\ i < j

\* The kept candidates are those whose IoU with every kept candidate
\* processed before them is <= iouThreshold, listed in processing order.
GreedySelection ==
    /\ \A i \in NmsIndices :
         i \in NmsKept <=> \A j \in NmsKept :
                             ProcessedBefore(j, i) => QuotientLeq(NmsIoU(j, i), nmsThreshold)
    /\ Cardinality(NmsKept) = Len(nmsKeep)
    /\ \A k \in 1..(Len(nmsKeep) - 1) : ProcessedBefore(nmsKeep[k], nmsKeep[k + 1])

NoKeptPairOverlaps ==
    \A i \in NmsKept, j \in NmsKept : i # j => ~QuotientGt(NmsIoU(i, j), nmsThreshold)

DroppedOverlapKept ==
    \A i \in NmsIndices \ NmsKept :
      \E j \in NmsKept : /\ nmsScores[j + 1] >= nmsScores[i + 1]
                         /\ QuotientGt(NmsIoU(j, i), nmsThreshold)

TopScoreKept ==
    nmsBoxes # <<>> => /\ nmsKeep # <<>>
                       /\ \A i \in NmsIndices : nmsScores[nmsKeep[1] + 1] >= nmsScores[i + 1]

\* C13 as stated: what nms returns is the greedy selection; no two kept
\* candidates have an IoU above the threshold, every dropped candidate has an
\* IoU above the threshold with a kept candidate of higher or equal score,
\* and the top-scoring candidate is kept.
C13_GreedySelection ==
    nmsStage # "input"
    => GreedySelection /\ NoKeptPairOverlaps /\ DroppedOverlapKept /\ TopScoreKept

ZeroArea(i) == nmsBoxes[i + 1][3] * nmsBoxes[i + 1][4] = 0

\* C17 as stated: the IoU of two candidates of which one has no area is the
\* number 0, also when neither has an area; a candidate without area is
\* always kept, and every dropped candidate was dropped for a kept candidate
\* that has an area.
C17_ZeroAreaIoU ==
    nmsStage # "input"
    => /\ \A i \in NmsIndices, j \in NmsIndices :
            (i # j /\ (ZeroArea(i) \/ ZeroArea(j)))
            => (NmsIoU(i, j).num = 0 /\ NmsIoU(i, j).den # 0)
       /\ \A i \in NmsIndices : ZeroArea(i) => i \in NmsKept
       /\ \A i \in NmsIndices \ NmsKept :
            \E j \in NmsKept : /\ ~ZeroArea(j)
                               /\ ProcessedBefore(j, i)
                               /\ ~QuotientLeq(NmsIoU(j, i), nmsThreshold)

\* C19: nms on the boxes and scores that nms kept, with the same threshold,
\* keeps every one of them, in the same order.
C19_NmsIdempotent ==
    nmsStage = "again" => nmsAgain = [k \in 1..Len(nmsKeep) |-> k - 1]

\* The second call was made on two or more kept candidates, the first two of
\* equal score, after the first call had dropped a candidate.
C19_Witness ==
    /\ nmsStage = "again"
    /\ Len(nmsKeep) >= 2
    /\ Len(nmsKeep) < Len(nmsBoxes)
    /\ nmsScores[nmsKeep[1] + 1] = nmsScores[nmsKeep[2] + 1]

----------------------------------------------------------------------------
(* Properties of postprocess *)

Anchors == 0..(numAnchors - 1)

WellShaped == Len(ppOutput) = numElements * numAnchors

\* The class confidences of anchor i in the channel-major layout.
Confidence(i, c) == ppOutput[(4 + c) * numAnchors + i + 1]

MaxConfidence(i) ==
    CHOOSE m \in {Confidence(i, c) : c \in 0..(numClasses - 1)} :
      \A c \in 0..(numClasses - 1) : Confidence(i, c) <= m

\* C14: the returned list is ordered by non-increasing score, every
\* returned index is the index of a candidate, and no index is returned
\* twice; the k-th DetectedObject is that of the k-th index.
C14_OrderedDistinct ==
    ppStage = "returned"
    => /\ \A k \in 1..(Len(ppResult) - 1) : ppResult[k].score >= ppResult[k + 1].score
       /\ \A k \in 1..Len(ppIndices) : ppIndices[k] \in 0..(Len(ppCands) - 1)
       /\ \A k \in 1..Len(ppIndices), l \in 1..Len(ppIndices) :
            ppIndices[k] = ppIndices[l] => k = l
       /\ Len(ppResult) = Len(ppIndices)
       /\ \A k \in 1..Len(ppResult) : ppResult[k].score = ppCands[ppIndices[k] + 1].score

\* Two detections came back, the candidate pushed second in front.
C14_Witness ==
    /\ ppStage = "returned"
    /\ ppOutput # <<>>
    /\ ppIndices = <<1, 0>>
    /\ ppResult[1].score > ppResult[2].score

\* C15: on a tensor of the declared shape the candidates are, in anchor
\* order, one for each anchor whose largest class confidence is strictly
\* above the confidence threshold, and none for any other anchor; the score of
\* a candidate is that largest confidence and its class index an index at
\* which the anchor's confidence is the largest.
C15_OnePerAnchor ==
    (ppStage = "returned" /\ WellShaped)
    => /\ \A i \in Anchors :
            (MaxConfidence(i) > CallConfThreshold)
            <=> \E k \in 1..Len(ppCands) : ppCands[k].anchor = i
       /\ \A k \in 1..Len(ppCands), l \in 1..Len(ppCands) :
            k < l => ppCands[k].anchor < ppCands[l].anchor
       /\ \A k \in 1..Len(ppCands) :
            /\ ppCands[k].score = MaxConfidence(ppCands[k].anchor)
            /\ ppCands[k].classIndex \in 0..(numClasses - 1)
            /\ Confidence(ppCands[k].anchor, ppCands[k].classIndex) = ppCands[k].score

\* One anchor's largest confidence is exactly the threshold and gave no
\* candidate; another gave one, of the last class.
C15_Witness ==
    /\ ppStage = "returned"
    /\ WellShaped
    /\ \E i \in Anchors : MaxConfidence(i) = CallConfThreshold
    /\ Len(ppCands) = 1
    /\ ppCands[1].classIndex = numClasses - 1

\* C16 as stated: a call with a tensor whose length is not
\* (4 + numClasses) * numAnchors throws and gives no detections.
C16_InvalidInputShape ==
    (ppStage # "input" /\ ~WellShaped) => (ppStage = "threw" /\ ppResult = <<>>)

\* C18: detections of equal score come back in the order of their anchors
\* (so that of two overlapping candidates of equal score the one of the
\* lower anchor is kept), and the result is that of postprocess on the
\* tensor and the thresholds.
C18_TiesByAnchor ==
    ppStage = "returned"
    => /\ \A k \in 1..Len(ppIndices), l \in 1..Len(ppIndices) :
            (k < l /\ ppResult[k].score = ppResult[l].score)
            => ppCands[ppIndices[k] + 1].anchor < ppCands[ppIndices[l] + 1].anchor
       /\ \A k \in 1..Len(ppCands) :
            (\A l \in 1..Len(ppIndices) : ppIndices[l] # k - 1)
            => \E l \in 1..Len(ppIndices) :
                 \/ ppCands[ppIndices[l] + 1].score > ppCands[k].score
                 \/ /\ ppCands[ppIndices[l] + 1].score = ppCands[k].score
                    /\ ppCands[ppIndices[l] + 1].anchor < ppCands[k].anchor
       /\ ppResult = postprocess(ppOutput, CallSize, CallSize,
                                 CallConfThreshold, CallIouThreshold).results

\* Two detections of equal score came back.
C18_Witness ==
    /\ ppStage = "returned"
    /\ Len(ppResult) = 2
    /\ ppResult[1].score = ppResult[2].score

----------------------------------------------------------------------------
(* Properties of KNNClassifier.predict *)

\* The squared distance from the query to the nearest stored example.
NearestDistance ==
    CHOOSE d \in {euclideanDistance(knnFeatures, knnData[i].features) : i \in 1..Len(knnData)} :
      \A i \in 1..Len(knnData) : d <= euclideanDistance(knnFeatures, knnData[i].features)

Answered ==
    knnStage = "returned" /\ knnData # <<>> /\ ~knnAbsent /\ knnFeatures # <<>>

\* C20: with the nearest stored example farther than 1.8, predict returns
\* "Idle" whatever the labels; with it at 1.8 or nearer, predict returns the
\* label the vote among the k nearest gives, a label of the examples.
C20_RejectBeyondThreshold ==
    Answered
    => IF NearestDistance > RejectDistance * RejectDistance
       THEN knnResult = "Idle"
       ELSE /\ knnResult = Majority(kNearest(knnData, knnFeatures, knnK))
            /\ knnResult \in {knnData[i].label : i \in 1..Len(knnData)}

\* The nearest example is exactly 1.8 away and predict returned its label.
C20_Witness ==
    /\ Answered
    /\ NearestDistance = RejectDistance * RejectDistance
    /\ knnResult = "Ram"

\* The k nearest of the call, nearest first.
Nearest == kNearest(knnData, knnFeatures, knnK)

NearestLabels == {Nearest[n].label : n \in 1..Len(Nearest)}

\* Where in nearest-to-farthest order a label comes first.
FirstAt(label) ==
    CHOOSE n \in 1..Len(Nearest) :
      /\ Nearest[n].label = label
      /\ \A m \in 1..(n - 1) : Nearest[m].label # label

Leads(label) ==
    \A other \in NearestLabels : Count(Nearest, label) >= Count(Nearest, other)

\* C21 as stated: when the call comes to the vote, predict returns a label
\* whose count among the k nearest is the greatest, and of the labels with
\* that count the one that comes first in nearest-to-farthest order.
C21_VoteTieBreak ==
    (Answered /\ ~Rejected(Nearest[1].dist))
    => /\ knnResult \in NearestLabels
       /\ Leads(knnResult)
       /\ \A other \in NearestLabels : Leads(other) => FirstAt(knnResult) <= FirstAt(other)

\* C22: a call with an absent or empty feature vector, or on a classifier
\* without stored examples, returns "Unknown" (it does not throw), and no
\* call changes the stored examples.
C22_UnknownWithoutData ==
    /\ []((knnStage # "input" /\ (knnAbsent \/ knnFeatures = <<>> \/ knnData = <<>>))
          => (knnStage = "returned" /\ knnResult = "Unknown"))
    /\ [][knnData' = knnData]_vars

\* A call with an empty feature vector on a classifier that has examples
\* has returned.
C22_Witness ==
    /\ knnStage = "returned"
    /\ knnData # <<>>
    /\ ~knnAbsent
    /\ knnFeatures = <<>>
    /\ knnResult = "Unknown"

----------------------------------------------------------------------------
(* Properties of normalizeHand *)

\* The wrist and the base of the middle finger are less than 0.0001 apart.
Degenerate ==
    LET wrist == nhLandmarks[1]
        middleBase == nhLandmarks[MiddleBase + 1]
    IN  (wrist.x - middleBase.x) * (wrist.x - middleBase.x)
          + (wrist.y - middleBase.y) * (wrist.y - middleBase.y)
          + (wrist.z - middleBase.z) * (wrist.z - middleBase.z)
        < DegenerateDistance * DegenerateDistance

\* The coordinate c (1, 2, 3 for x, y, z) of landmark n of the call.
Coordinate(n, c) ==
    IF c = 1 THEN nhLandmarks[n].x ELSE IF c = 2 THEN nhLandmarks[n].y ELSE nhLandmarks[n].z

\* C23: the result is empty for an empty (or absent) input and has three
\* values per landmark otherwise; no value is a quotient by zero; and when
\* wrist and middle-finger base are less than 0.0001 apart every value is
\* the plain difference to the wrist, divided by 1.0.
C23_NormalizeHand ==
    nhStage = "returned"
    => IF nhAbsent \/ nhLandmarks = <<>>
       THEN nhCoords = <<>>
       ELSE /\ Len(nhCoords) = 3 * Len(nhLandmarks)
            /\ \A e \in 1..Len(nhCoords) : nhCoords[e].scale.one \/ nhCoords[e].scale.sq > 0
            /\ \A n \in 1..Len(nhLandmarks), c \in 1..3 :
                 nhCoords[3 * (n - 1) + c].num = Coordinate(n, c) - Coordinate(1, c)
            /\ Degenerate => \A e \in 1..Len(nhCoords) : nhCoords[e].scale.one
            /\ ~Degenerate => \A e \in 1..Len(nhCoords) : ~nhCoords[e].scale.one

\* A hand whose wrist and middle-finger base coincide was normalized, and a
\* landmark of it off the wrist kept its difference.
C23_Witness ==
    /\ nhStage = "returned"
    /\ nhLandmarks # <<>>
    /\ nhLandmarks[1] = nhLandmarks[MiddleBase + 1]
    /\ nhCoords[3 * LandmarkCount - 1].num # 0

----------------------------------------------------------------------------
(* Properties of the feature vector *)

\* The hands of the frame that carry the tag.
Tagged(label) ==
    {n \in 1..Len(fvLandmarks) : n <= Len(fvHandedness) /\ fvHandedness[n] = label}

\* The normalized values of hand n of the frame, mirrored as the page does.
NormalizedValues(n) ==
    normalizeHand(FALSE, [m \in 1..Len(fvLandmarks[n]) |->
        Point(One - fvLandmarks[n][m].x, fvLandmarks[n][m].y, fvLandmarks[n][m].z)])

\* The slot of FeatureCount \div 2 entries after the first 'first' entries
\* holds the values of a hand tagged label, or zeros when there is none.
SlotHolds(first, label) ==
    IF Tagged(label) = {}
    THEN \A i \in 1..(FeatureCount \div 2) : fvFeatures[first + i] = Zero
    ELSE \E n \in Tagged(label) :
           LET values == NormalizedValues(n)
           IN  values = [i \in 1..(FeatureCount \div 2) |-> fvFeatures[first + i]]

\* C24: the feature vector has exactly 126 entries; entries 0..62 hold the
\* normalized values of a hand tagged "Left", entries 63..125 those of a hand
\* tagged "Right", and the slot of a tag no detected hand carries is all
\* zeros, whatever the tags of the hands are.
C24_FeatureSlots ==
    fvStage = "assembled"
    => /\ Len(fvFeatures) = FeatureCount
       /\ SlotHolds(0, "Left")
       /\ SlotHolds(FeatureCount \div 2, "Right")

\* Two different hands, both tagged "Right": the left slot stayed zero.
C24_Witness ==
    /\ fvStage = "assembled"
    /\ Len(fvHandedness) = 2
    /\ fvHandedness[1] = "Right"
    /\ fvHandedness[2] = "Right"
    /\ fvLandmarks[1] # fvLandmarks[2]
    /\ fvFeatures[FeatureCount] # Zero

----------------------------------------------------------------------------
(* Properties of consecutive advances *)

\* C25: an advance leaves the held label "Idle" and the timer unset, and it
\* comes at least CONFIRM_DELAY after the advance before it, also when both
\* steps expect the same sign.
C25_OwnHoldPerStep ==
    [][currentStep' # currentStep
       => /\ lastSign' = "Idle"
          /\ lastSignTime' = 0
          /\ hAdvanceTime >= 0 => now' - hAdvanceTime >= CONFIRM_DELAY]_vars

\* Both steps that expect SNAKE were advanced, the second by a hold of the
\* same label as the first.
C25_Witness ==
    /\ targetSequence[1] = targetSequence[2]
    /\ currentStep = 2
    /\ hAdvanceTime > CONFIRM_DELAY
    /\ hLabel = ""

----------------------------------------------------------------------------
(* Properties of the inference loop's continuation *)

\* A step in which a frame callback of the inference loop ran on the mounted
\* page with a loaded model: it left the queue, and neither the effect nor
\* an unmount cancelled it.
InferenceCallbackRan ==
    /\ infMounted
    /\ infMounted' = infMounted
    /\ effModel' = effModel
    /\ \E cb \in rafQueue : cb.m # 0 /\ rafQueue' = rafQueue \ {cb}

\* C26 as stated: every frame callback of the started loop keeps the loop
\* going, also one that finds the video not ready: after it a frame is
\* scheduled, or an inference is in flight that will schedule one.
C26_LoopKeepsGoing ==
    [][InferenceCallbackRan => (rafQueue' # {} \/ inflight' # {})]_vars

----------------------------------------------------------------------------
(* Properties of the classification throttle *)

\* C27: an evaluation comes more than 100 ms after the evaluation before it,
\* and a callback that does not evaluate leaves the step, the held label and
\* the time it is held since as they are.
C27_Throttled ==
    [][/\ Evaluated => now' - lastPredictionTime > ThrottleMs
       /\ ~Evaluated => UNCHANGED <<currentStep, lastSign, lastSignTime>>]_vars

\* A sign is being held, an evaluation happened one throttle period ago, and
\* a callback has come since that saw a new video frame and did not evaluate.
C27_Witness ==
    /\ lastSign # "Idle"
    /\ lastSignTime > 0
    /\ lastPredictionTime > ThrottleMs
    /\ now = lastPredictionTime + ThrottleMs

----------------------------------------------------------------------------
(* Properties of the leaderboard page *)

\* C28 as stated: once every fetch has resolved, and the fetch of the
\* selected mode brought rows, the entries shown are the rows of the selected
\* mode and loading is false.
C28_EntriesOfSelectedMode ==
    (lbPending = {} /\ ~lbFailed)
    => (lbEntries = dbMode(lbMode) /\ ~lbLoading)

----------------------------------------------------------------------------
(* Properties of the report dialog *)

\* C29: an upload attempt ends with isUploading false, with uploadStatus
\* "success" exactly when it succeeded and "error" when it failed; and an
\* attempt starts only while isUploading is false and uploadStatus is not
\* "success".
C29_UploadOutcome ==
    [][/\ Cardinality(upInflight') < Cardinality(upInflight)
          => /\ isUploading' = FALSE
             /\ (uploadStatus' = "success") <=> (upOutcome' = "succeeded")
             /\ (upOutcome' = "failed") => (uploadStatus' = "error")
       /\ Cardinality(upInflight') > Cardinality(upInflight)
          => /\ ~isUploading
             /\ uploadStatus # "success"]_vars

\* An attempt after the first has succeeded: the upload is over, success is
\* shown and its timeout is pending.
C29_Witness ==
    /\ upNext > 2
    /\ upOutcome = "succeeded"
    /\ uploadStatus = "success"
    /\ upInflight = {}
    /\ ~isUploading
    /\ upTimers = 1

----------------------------------------------------------------------------
(* Properties of CursorGuard *)

\* C30: while CursorGuard is mounted the attribute is present exactly when
\* forcePointer is true, and forcePointer is true only if a tick within the
\* last 140 ms found a clickable and the pointer has not left the window
\* since; a mouseleave clears both at once; after unmount the attribute is
\* absent, no tick is scheduled and none is scheduled any more.
C30_CursorGuard ==
    /\ [](cgMounted => /\ cgAttribute <=> forcePointer
                       /\ forcePointer => (cgSeen >= 0 /\ cgNow - cgSeen <= PointerHold))
    /\ [](~cgMounted => (~cgAttribute /\ cgQueue = {}))
    /\ [][(cgHasMouse /\ ~cgHasMouse') => (~forcePointer' /\ ~cgAttribute')]_vars
    /\ [][~cgMounted => cgQueue' = cgQueue]_vars

\* The pointer is forced one hold after the latest clickable was seen, the
\* tick of that moment having found none.
C30_Witness ==
    /\ cgMounted
    /\ forcePointer
    /\ cgAttribute
    /\ cgNow = cgSeen + PointerHold

====
